---- MODULE Spec2Model ----
(***************************************************************************)
(* Model of gngui::GraphicsNode (GNodeGUI/src/graphics_node.cpp): the      *)
(* per-port hover flags, the connection drag started by a press on a       *)
(* hovered port, the relay of mouse moves to the other nodes through       *)
(* sceneEventFilter, and the release that emits connection_finished or     *)
(* connection_dropped.                                                     *)
(*                                                                         *)
(* The scene is a fixed layout: a finite set of scene points, the items    *)
(* found at each point in stacking order, and the port rectangles of each  *)
(* node as sets of scene points.  Nodes do not move in this model.         *)
(***************************************************************************)
EXTENDS Integers, Sequences, FiniteSets, TLC

\* ------------------------------------------------------------------------
\* The scene: nodes, other items, ports
\* ------------------------------------------------------------------------

\* the GraphicsNode items of the scene
Nodes == {"N1", "N2", "N3"}

\* an item of the scene that is not a GraphicsNode (dynamic_cast fails)
OtherItems == {"Link"}

\* "no node": the null pointer / no mouse grabber
NoNode == "none"

\* the number of ports of N2, the node with the most ports
MaxPorts == 2

\* p_node_proxy->get_nports()
get_nports(n) == IF n = "N2" THEN MaxPorts ELSE 2

PortsOf(n) == 0 .. (get_nports(n) - 1)

\* p_node_proxy->get_port_type(k)
get_port_type(n, k) ==
  CASE n = "N1" -> <<"OUT", "IN">>[k + 1]
    [] n = "N2" -> "IN"
    [] n = "N3" -> <<"OUT", "IN">>[k + 1]

\* p_node_proxy->get_data_type(k)
get_data_type(n, k) ==
  CASE n = "N1" -> <<"float", "int">>[k + 1]
    [] n = "N2" -> IF k < 2 THEN "float" ELSE "int"
    [] n = "N3" -> <<"int", "float">>[k + 1]

\* scene positions inside the ports of N2 after the first two
MorePoints == {<<"b2", "b3", "b4">>[k - 1] : k \in 2 .. (MaxPorts - 1)}

\* scene positions of the pointer
Points ==
  {"e", "a0", "a1", "ab", "b0", "b1", "bb", "c0", "c1", "cb", "x", "y"} \cup MorePoints

\* scene()->items(pos): the items at a scene position, front to back.
\*   e  : empty canvas;  a*, b*, c* : on N1, N2, N3 alone
\*   x  : N3 lies in front of N2
\*   y  : a non-node item lies in front of N2
ItemsAt(pt) ==
  CASE pt = "e" -> <<>>
    [] pt \in {"a0", "a1", "ab"} -> <<"N1">>
    [] pt \in {"b0", "b1", "bb"} \cup MorePoints -> <<"N2">>
    [] pt \in {"c0", "c1", "cb"} -> <<"N3">>
    [] pt = "x" -> <<"N3", "N2">>
    [] pt = "y" -> <<"Link", "N2">>

\* geometry.port_rects[k].contains(scene_pos - scenePos()): the scene points
\* inside the hit rectangle of port k of node n.  The rectangles of one node
\* do not overlap.
PortRect(n, k) ==
  CASE n = "N1" -> <<{"a0"}, {"a1"}>>[k + 1]
    [] n = "N2" -> IF k < 2 THEN <<{"b0", "x"}, {"b1", "y"}>>[k + 1]
                   ELSE {<<"b2", "b3", "b4">>[k - 1]}
    [] n = "N3" -> <<{"c0"}, {"c1"}>>[k + 1]

Buttons == {"Left", "Right"}

\* ------------------------------------------------------------------------
\* State
\* ------------------------------------------------------------------------
VARIABLES
  is_port_hovered,         \* [node -> [port -> BOOLEAN]]
  has_connection_started,  \* [node -> BOOLEAN]
  port_index_from,         \* [node -> port index], -1 before the first drag
  data_type_connecting,    \* [node -> data type tag], "" when none
  is_movable,              \* [node -> BOOLEAN], the ItemIsMovable flag
  pointer,                 \* scene position of the pointer
  buttons,                 \* the mouse buttons held down
  grabber,                 \* the node that grabbed the mouse, or NoNode
  emitted,                 \* the signals emitted by the last event handler
  updated,                 \* the nodes whose update() the last handler called
  last                     \* the last event: kind, receiving node, position, button

vars == <<is_port_hovered, has_connection_started, port_index_from,
          data_type_connecting, is_movable, pointer, buttons, grabber,
          emitted, updated, last>>

node_vars == <<is_port_hovered, has_connection_started, port_index_from,
               data_type_connecting, is_movable>>

\* ------------------------------------------------------------------------
\* Signals
\* ------------------------------------------------------------------------
connection_started(n, k) == <<"connection_started", n, k>>

connection_finished(n, k, t, q) == <<"connection_finished", n, k, t, q>>

connection_dropped(n, k, pos) == <<"connection_dropped", n, k, pos>>

right_clicked(n) == <<"right_clicked", n>>

\* ------------------------------------------------------------------------
\* Helpers of GraphicsNode
\* ------------------------------------------------------------------------

Min(S) == CHOOSE x \in S : \A y \in S : x <= y

\* std::find(is_port_hovered.begin(), is_port_hovered.end(), true): the
\* index of the first hovered port of a flag vector, or -1
FirstHovered(hov) ==
  LET H == {k \in DOMAIN hov : hov[k]}
  IN  IF H = {} THEN -1 ELSE Min(H)

\* GraphicsNode::get_hovered_port_index
get_hovered_port_index(n) == FirstHovered(is_port_hovered[n])

\* a hover scan that returns true only when a flag changed
update_is_port_hovered_ChangedOnly(hov, n, pt) ==
  LET hit == {k \in PortsOf(n) : pt \in PortRect(n, k)}
      set == {k \in PortsOf(n) : hov[k]}
      new == IF hit # {} THEN [hov EXCEPT ![Min(hit)] = TRUE]
             ELSE IF set # {} THEN [hov EXCEPT ![Min(set)] = FALSE]
             ELSE hov
  IN  [hovered |-> new, ret |-> new # hov]

\* GraphicsNode::update_is_port_hovered: the new flags of node n and the
\* returned value, for the pointer at scene position pt
update_is_port_hovered(hov, n, pt) ==
  LET hit == {k \in PortsOf(n) : pt \in PortRect(n, k)}
      set == {k \in PortsOf(n) : hov[k]}
  IN  IF hit # {}
      THEN [hovered |-> [hov EXCEPT ![Min(hit)] = TRUE], ret |-> TRUE]
      ELSE IF set # {}
           THEN [hovered |-> [hov EXCEPT ![Min(set)] = FALSE], ret |-> TRUE]
           ELSE [hovered |-> hov, ret |-> FALSE]

\* GraphicsNode::reset_is_port_hovered
reset_is_port_hovered(n) == [k \in PortsOf(n) |-> FALSE]

\* the first GraphicsNode among a list of items (dynamic_cast succeeds), or
\* NoNode
RECURSIVE FirstNode(_)
FirstNode(items) ==
  IF items = <<>> THEN NoNode
  ELSE IF Head(items) \in Nodes THEN Head(items)
  ELSE FirstNode(Tail(items))

\* a test that compares the data types only
Incompatible_DataOnly(node, from_pidx, this, k) ==
  get_data_type(node, from_pidx) # get_data_type(this, k)

\* the test of sceneEventFilter that un-hovers port k of node this during a
\* drag from port from_pidx of node
Incompatible(node, from_pidx, this, k) ==
  \/ get_port_type(node, from_pidx) = get_port_type(this, k)
  \/ get_data_type(node, from_pidx) # get_data_type(this, k)

\* sceneEventFilter, hover part: the flags of node this after a mouse move
\* at pt sent to the dragging node
FilterHovered(this, node, pt) ==
  LET r == update_is_port_hovered(is_port_hovered[this], this, pt)
  IN  IF r.ret
      THEN [k \in PortsOf(this) |->
              r.hovered[k] /\ ~Incompatible(node, port_index_from[node], this, k)]
      ELSE r.hovered

\* a filter that never mirrors the data type of the dragging node
FilterDataType_NoMirror(this, node) == data_type_connecting[this]

\* sceneEventFilter, data type part
FilterDataType(this, node) == data_type_connecting[node]

\* the nodes that installed a scene event filter on node: every other node
\* of the scene
Filters(node) == Nodes \ {node}

\* a paint that gives a hovered port its type color
PortNotSelectable_HoverWins(n, k) ==
  /\ data_type_connecting[n] # ""
  /\ get_data_type(n, k) # data_type_connecting[n]
  /\ ~is_port_hovered[n][k]

\* GraphicsNode::paint: port k of node n is drawn with
\* color_port_not_selectable and port_radius_not_selectable
PortNotSelectable(n, k) ==
  /\ data_type_connecting[n] # ""
  /\ get_data_type(n, k) # data_type_connecting[n]

\* ------------------------------------------------------------------------
\* Init
\* ------------------------------------------------------------------------
Init ==
  /\ is_port_hovered = [n \in Nodes |-> [k \in PortsOf(n) |-> FALSE]]
  /\ has_connection_started = [n \in Nodes |-> FALSE]
  /\ port_index_from = [n \in Nodes |-> -1]
  /\ data_type_connecting = [n \in Nodes |-> ""]
  /\ is_movable = [n \in Nodes |-> TRUE]
  /\ pointer = "e"
  /\ buttons = {}
  /\ grabber = NoNode
  /\ emitted = <<>>
  /\ updated = {}
  /\ last = [kind |-> "init", node |-> NoNode, pos |-> "e", button |-> "none"]

\* ------------------------------------------------------------------------
\* Event handlers
\* ------------------------------------------------------------------------

\* GraphicsNode::hoverMoveEvent.  With no button held the pointer moves to
\* pt and the first node found there receives the hover move.
hoverMoveEvent(pt) ==
  LET n == FirstNode(ItemsAt(pt))
  IN  /\ buttons = {}
      /\ pointer' = pt
      /\ is_port_hovered' =
           IF n = NoNode THEN is_port_hovered
           ELSE [is_port_hovered EXCEPT
                   ![n] = update_is_port_hovered(is_port_hovered[n], n, pt).hovered]
      /\ updated' =
           IF n # NoNode /\ update_is_port_hovered(is_port_hovered[n], n, pt).ret
           THEN {n} ELSE {}
      /\ emitted' = <<>>
      /\ last' = [kind |-> "hover", node |-> n, pos |-> pt, button |-> "none"]
      /\ UNCHANGED <<has_connection_started, port_index_from,
                     data_type_connecting, is_movable, buttons, grabber>>

\* the node that receives a press or a release: the mouse grabber, or, with
\* no grabber, the first node at the pointer
Receiver == IF grabber # NoNode THEN grabber ELSE FirstNode(ItemsAt(pointer))

\* a press that stores the index after the hovered one
PressLeft_OffByOne(n) ==
  LET hovered_port_index == get_hovered_port_index(n)
  IN  IF hovered_port_index >= 0
      THEN /\ has_connection_started' = [has_connection_started EXCEPT ![n] = TRUE]
           /\ is_movable' = [is_movable EXCEPT ![n] = FALSE]
           /\ port_index_from' = [port_index_from EXCEPT ![n] = hovered_port_index + 1]
           /\ data_type_connecting' =
                [data_type_connecting EXCEPT ![n] = get_data_type(n, hovered_port_index)]
           /\ emitted' = <<connection_started(n, hovered_port_index)>>
      ELSE /\ emitted' = <<>>
           /\ UNCHANGED <<has_connection_started, is_movable, port_index_from,
                          data_type_connecting>>

\* a press that starts a drag and leaves the node movable
PressLeft_StaysMovable(n) ==
  LET hovered_port_index == get_hovered_port_index(n)
  IN  IF hovered_port_index >= 0
      THEN /\ has_connection_started' = [has_connection_started EXCEPT ![n] = TRUE]
           /\ port_index_from' = [port_index_from EXCEPT ![n] = hovered_port_index]
           /\ data_type_connecting' =
                [data_type_connecting EXCEPT ![n] = get_data_type(n, hovered_port_index)]
           /\ emitted' = <<connection_started(n, hovered_port_index)>>
           /\ UNCHANGED is_movable
      ELSE /\ emitted' = <<>>
           /\ UNCHANGED <<has_connection_started, is_movable, port_index_from,
                          data_type_connecting>>

\* GraphicsNode::mousePressEvent, Qt::LeftButton branch
PressLeft(n) ==
  LET hovered_port_index == get_hovered_port_index(n)
  IN  IF hovered_port_index >= 0
      THEN /\ has_connection_started' = [has_connection_started EXCEPT ![n] = TRUE]
           /\ is_movable' = [is_movable EXCEPT ![n] = FALSE]
           /\ port_index_from' = [port_index_from EXCEPT ![n] = hovered_port_index]
           /\ data_type_connecting' =
                [data_type_connecting EXCEPT ![n] = get_data_type(n, hovered_port_index)]
           /\ emitted' = <<connection_started(n, hovered_port_index)>>
      ELSE /\ emitted' = <<>>
           /\ UNCHANGED <<has_connection_started, is_movable, port_index_from,
                          data_type_connecting>>

\* a press that never tests the button
PressRight_NoButtonTest(n) == PressLeft(n)

\* GraphicsNode::mousePressEvent, Qt::RightButton branch
PressRight(n) ==
  /\ emitted' = <<right_clicked(n)>>
  /\ UNCHANGED <<has_connection_started, is_movable, port_index_from,
                 data_type_connecting>>

\* GraphicsNode::mousePressEvent: button b goes down at the pointer; the
\* receiving node becomes (or stays) the mouse grabber
mousePressEvent(b) ==
  LET n == Receiver
  IN  /\ b \notin buttons
      /\ n # NoNode
      /\ IF b = "Left" THEN PressLeft(n) ELSE PressRight(n)
      /\ buttons' = buttons \cup {b}
      /\ grabber' = n
      /\ updated' = {}
      /\ last' = [kind |-> "press", node |-> n, pos |-> pointer, button |-> b]
      /\ UNCHANGED <<is_port_hovered, pointer>>

\* a relay in which a filtering node un-hovers the ports of the watched node
\* as well as its own
RelayHovered_TouchesWatched(node, pt) ==
  [n \in Nodes |-> IF n \in Filters(node)
                   THEN FilterHovered(n, node, pt)
                   ELSE reset_is_port_hovered(n)]

\* sceneEventFilter run by every filtering node: each one writes its own
\* flags only
RelayHovered(node, pt) ==
  [n \in Nodes |-> IF n \in Filters(node)
                   THEN FilterHovered(n, node, pt)
                   ELSE is_port_hovered[n]]

\* sceneEventFilter: the filtering nodes that call update(), for a new data
\* type or for a hover scan that returned true
RelayUpdated(node, pt) ==
  {n \in Filters(node) :
     \/ data_type_connecting[n] # data_type_connecting[node]
     \/ update_is_port_hovered(is_port_hovered[n], n, pt).ret}

\* GraphicsNode::sceneEventFilter for a QEvent::GraphicsSceneMouseMove: the
\* pointer moves to pt while a node holds the mouse; the move is sent to the
\* grabber and every other node filters it
mouseMoveRelay(pt) ==
  /\ grabber # NoNode
  /\ pointer' = pt
  /\ IF has_connection_started[grabber]
     THEN /\ is_port_hovered' = RelayHovered(grabber, pt)
          /\ data_type_connecting' =
               [n \in Nodes |-> IF n \in Filters(grabber)
                                THEN FilterDataType(n, grabber)
                                ELSE data_type_connecting[n]]
          /\ updated' = RelayUpdated(grabber, pt)
     ELSE /\ updated' = {}
          /\ UNCHANGED <<is_port_hovered, data_type_connecting>>
  /\ emitted' = <<>>
  /\ last' = [kind |-> "move", node |-> grabber, pos |-> pt, button |-> "none"]
  /\ UNCHANGED <<has_connection_started, port_index_from, is_movable,
                 buttons, grabber>>

\* a release that looks for the first node with a hovered port instead of
\* stopping at the first node
ReleaseTarget_BestMatch(pt) ==
  LET cand == {i \in 1 .. Len(ItemsAt(pt)) :
                 /\ ItemsAt(pt)[i] \in Nodes
                 /\ get_hovered_port_index(ItemsAt(pt)[i]) >= 0}
  IN  IF cand = {} THEN FirstNode(ItemsAt(pt)) ELSE ItemsAt(pt)[Min(cand)]

\* mouseReleaseEvent: the target node of the release, the first GraphicsNode
\* of scene()->items(event->scenePos())
ReleaseTarget(pt) == FirstNode(ItemsAt(pt))

\* a release whose connection_dropped carries the hovered port index of the
\* scan instead of port_index_from
ReleaseSignal_DropIndex(n, pt) ==
  LET target_node == ReleaseTarget(pt)
      hovered_port_index ==
        IF target_node = NoNode THEN -1 ELSE get_hovered_port_index(target_node)
  IN  IF hovered_port_index >= 0
      THEN connection_finished(n, port_index_from[n], target_node, hovered_port_index)
      ELSE connection_dropped(n, hovered_port_index, pt)

\* mouseReleaseEvent: the signal emitted by the release of a drag of node n
ReleaseSignal(n, pt) ==
  LET target_node == ReleaseTarget(pt)
      hovered_port_index ==
        IF target_node = NoNode THEN -1 ELSE get_hovered_port_index(target_node)
  IN  IF hovered_port_index >= 0
      THEN connection_finished(n, port_index_from[n], target_node, hovered_port_index)
      ELSE connection_dropped(n, port_index_from[n], pt)

\* mouseReleaseEvent: the hover flags after the release of a drag of node n
ReleaseHovered(n) == [is_port_hovered EXCEPT ![n] = reset_is_port_hovered(n)]

\* a release that clears the data type of the origin only
ReleaseDataType_OriginOnly(n) == [data_type_connecting EXCEPT ![n] = ""]

\* mouseReleaseEvent: the clean-up loop over scene()->items()
ReleaseDataType(n) == [v \in Nodes |-> ""]

\* a release that does not lower is_dropped after connection_finished and
\* so emits connection_dropped as well
ReleaseDrag_AlsoDropped(n) ==
  /\ emitted' =
       IF ReleaseSignal(n, pointer)[1] = "connection_finished"
       THEN <<ReleaseSignal(n, pointer),
              connection_dropped(n, port_index_from[n], pointer)>>
       ELSE <<ReleaseSignal(n, pointer)>>
  /\ is_port_hovered' = ReleaseHovered(n)
  /\ has_connection_started' = [has_connection_started EXCEPT ![n] = FALSE]
  /\ data_type_connecting' = ReleaseDataType(n)
  /\ is_movable' = [is_movable EXCEPT ![n] = TRUE]
  /\ updated' = Nodes
  /\ UNCHANGED port_index_from

\* GraphicsNode::mouseReleaseEvent, Qt::LeftButton with a drag in progress
ReleaseDrag(n) ==
  /\ emitted' = <<ReleaseSignal(n, pointer)>>
  /\ is_port_hovered' = ReleaseHovered(n)
  /\ has_connection_started' = [has_connection_started EXCEPT ![n] = FALSE]
  /\ data_type_connecting' = ReleaseDataType(n)
  /\ is_movable' = [is_movable EXCEPT ![n] = TRUE]
  /\ updated' = Nodes
  /\ UNCHANGED port_index_from

\* GraphicsNode::mouseReleaseEvent: button b goes up at the pointer; the
\* grabber receives the release and loses the grab with the last button
mouseReleaseEvent(b) ==
  LET n == grabber
  IN  /\ b \in buttons
      /\ n # NoNode
      /\ IF b = "Left" /\ has_connection_started[n]
         THEN ReleaseDrag(n)
         ELSE /\ emitted' = <<>>
              /\ updated' = {}
              /\ UNCHANGED node_vars
      /\ buttons' = buttons \ {b}
      /\ grabber' = IF buttons' = {} THEN NoNode ELSE grabber
      /\ last' = [kind |-> "release", node |-> n, pos |-> pointer, button |-> b]
      /\ UNCHANGED pointer

Next ==
  \/ \E pt \in Points : hoverMoveEvent(pt)
  \/ \E b \in Buttons : mousePressEvent(b)
  \/ \E pt \in Points : mouseMoveRelay(pt)
  \/ \E b \in Buttons : mouseReleaseEvent(b)

Spec == Init /\ [][Next]_vars

TypeOK ==
  /\ \A n \in Nodes : is_port_hovered[n] \in [PortsOf(n) -> BOOLEAN]
  /\ has_connection_started \in [Nodes -> BOOLEAN]
  /\ \A n \in Nodes : port_index_from[n] \in -1 .. (get_nports(n) - 1)
  /\ data_type_connecting \in [Nodes -> {"", "float", "int"}]
  /\ is_movable \in [Nodes -> BOOLEAN]
  /\ pointer \in Points
  /\ buttons \subseteq Buttons
  /\ grabber \in Nodes \cup {NoNode}
  /\ updated \subseteq Nodes

\* ------------------------------------------------------------------------
\* Vocabulary of the properties
\* ------------------------------------------------------------------------

\* the compatibility rule: directions differ and data-type tags are equal
Compatible(o, p, t, q) ==
  /\ get_port_type(o, p) # get_port_type(t, q)
  /\ get_data_type(o, p) = get_data_type(t, q)

\* the hovered ports of a node
HoveredPorts(n) == {k \in PortsOf(n) : is_port_hovered[n][k]}

\* the node views among the items at a point, by position in stacking order
NodePositions(pt) == {i \in 1 .. Len(ItemsAt(pt)) : ItemsAt(pt)[i] \in Nodes}

\* the first node view at a point in front-to-back order, or NoNode
FrontNode(pt) ==
  IF NodePositions(pt) = {} THEN NoNode
  ELSE ItemsAt(pt)[CHOOSE i \in NodePositions(pt) : \A j \in NodePositions(pt) : i <= j]

\* the node views behind the first one at a point
BackNodes(pt) == {ItemsAt(pt)[i] : i \in NodePositions(pt)} \ {FrontNode(pt)}

\* the ports of node n whose hit rectangle contains the point
PortsHit(n, pt) == {k \in PortsOf(n) : pt \in PortRect(n, k)}

\* the last event was a primary-button release that resolved a drag
Resolved ==
  /\ last.kind = "release"
  /\ last.button = "Left"
  /\ emitted # <<>>

\* the signals of one kind emitted by the last event
EmittedOf(kind) == {emitted[i] : i \in {j \in 1 .. Len(emitted) : emitted[j][1] = kind}}

\* a node is the origin of a drag in progress
Dragging(n) == has_connection_started[n]

\* the step is a primary-button release that resolves the drag of the grabber
ReleaseOfDrag ==
  /\ mouseReleaseEvent("Left")
  /\ grabber # NoNode
  /\ has_connection_started[grabber]

\* ------------------------------------------------------------------------
\* Properties
\* ------------------------------------------------------------------------

\* C1: every connection_finished(origin, p, target, q) emitted by a release
\* joins compatible ports: the directions of p and q differ and their data
\* types are equal.
C1_FinishedIsCompatible ==
  \A s \in EmittedOf("connection_finished") : Compatible(s[2], s[3], s[4], s[5])

\* C2: right after a drag is resolved by a primary-button release, no port
\* of any node of the scene is hovered.
C2_HoverClearedEverywhere ==
  Resolved => \A n \in Nodes : HoveredPorts(n) = {}

\* C3: right after a drag is resolved by a primary-button release, every
\* node of the scene has an empty data_type_connecting and the origin is no
\* longer connecting.
C3_DataTypeCleared ==
  Resolved =>
    /\ \A n \in Nodes : data_type_connecting[n] = ""
    /\ ~has_connection_started[last.node]

\* C3 witness: a drag that ended on a port of another node, whose data type
\* had been mirrored by the relay, has been resolved.
C3_Witness ==
  /\ Resolved
  /\ \E s \in EmittedOf("connection_finished") : s[4] # last.node

\* C4: in every reachable state each node has at most one hovered port.
C4_HoverExclusive ==
  \A n \in Nodes : Cardinality(HoveredPorts(n)) <= 1

\* C5: after a primary-button press at a position inside the hit rectangle
\* of port k of the pressed node, the node is connecting from port k with
\* port k's data type and connection_started(node, k) has been emitted.
C5_PressOnPortStartsDrag ==
  (last.kind = "press" /\ last.button = "Left") =>
    \A k \in PortsHit(last.node, last.pos) :
      /\ has_connection_started[last.node]
      /\ port_index_from[last.node] = k
      /\ data_type_connecting[last.node] = get_data_type(last.node, k)
      /\ emitted = <<connection_started(last.node, k)>>

\* C6: a primary-button press at a position that hits no port of the pressed
\* node starts no drag: the node is not connecting, stays movable, keeps its
\* data_type_connecting and emits nothing.
C6_PressOffPortStaysIdle ==
  [][(mousePressEvent("Left") /\ PortsHit(Receiver, pointer) = {}) =>
       /\ ~has_connection_started'[Receiver]
       /\ is_movable'[Receiver]
       /\ data_type_connecting' = data_type_connecting
       /\ emitted' = <<>>]_vars

\* C7 as stated: while some node is connecting, every node's
\* data_type_connecting equals the data type of the origin port.
C7_DataTypeEverywhere ==
  \A o \in Nodes : Dragging(o) =>
    \A n \in Nodes : data_type_connecting[n] = get_data_type(o, port_index_from[o])

\* C7 amended: while a node is connecting, its own data_type_connecting is
\* the data type of its origin port and every other node's is empty or equal
\* to it; right after a relayed mouse move every node's equals it, and a
\* node that holds it keeps it until the release.
C7_DataTypeMirrored ==
  /\ [](\A o \in Nodes : Dragging(o) =>
          LET T == get_data_type(o, port_index_from[o])
          IN  /\ data_type_connecting[o] = T
              /\ \A n \in Nodes : data_type_connecting[n] \in {"", T}
              /\ last.kind = "move" => \A n \in Nodes : data_type_connecting[n] = T)
  /\ [][\A o \in Nodes : (Dragging(o) /\ Dragging(o)') =>
          \A n \in Nodes :
            data_type_connecting[n] = get_data_type(o, port_index_from[o])
              => data_type_connecting'[n] = data_type_connecting[n]]_vars

\* C7 witness: during a drag, after a relayed move, another node carries the
\* data type of the origin port.
C7_Witness ==
  \E o \in Nodes :
    /\ Dragging(o)
    /\ last.kind = "move"
    /\ \E n \in Nodes \ {o} :
         data_type_connecting[n] = get_data_type(o, port_index_from[o])

\* C8: the release of a drag is decided by the first node view at the
\* release point alone: when it has a hovered port, connection_finished
\* (origin, origin port, that node, its hovered port index) is emitted; when
\* it has none, or no node view is there, nothing is finished, whatever the
\* nodes behind it and the other items hold.
C8_FirstNodeWins ==
  [][ReleaseOfDrag =>
       LET o == grabber
           t == FrontNode(pointer)
       IN  IF t # NoNode /\ HoveredPorts(t) # {}
           THEN emitted' = <<connection_finished(o, port_index_from[o], t,
                                                  Min(HoveredPorts(t)))>>
           ELSE /\ Len(emitted') = 1
                /\ emitted'[1][1] = "connection_dropped"]_vars

\* C8 witness: a drag was dropped at a point where the first node view has
\* no hovered port while a node view behind it has one.
C8_Witness ==
  /\ Resolved
  /\ EmittedOf("connection_dropped") # {}
  /\ FrontNode(last.pos) \in Nodes
  /\ HoveredPorts(FrontNode(last.pos)) = {}
  /\ \E n \in BackNodes(last.pos) : HoveredPorts(n) # {} /\ n # last.node

\* C9: the release of a drag at a point with no node view, or whose first
\* node view has no hovered port, emits exactly connection_dropped(origin,
\* origin port index, release position); the origin port index is the one
\* announced by connection_started at the press and is not changed during
\* the drag.
C9_DroppedCarriesOrigin ==
  /\ [][ReleaseOfDrag =>
          LET o == grabber
              t == FrontNode(pointer)
          IN  (t = NoNode \/ HoveredPorts(t) = {}) =>
                emitted' = <<connection_dropped(o, port_index_from[o], pointer)>>]_vars
  /\ [][\A n \in Nodes :
          /\ Dragging(n) => port_index_from'[n] = port_index_from[n]
          /\ (~Dragging(n) /\ Dragging(n)') =>
               emitted' = <<connection_started(n, port_index_from'[n])>>]_vars

\* C9 witness: a drag was released over the empty canvas and dropped with
\* the origin port index.
C9_Witness ==
  /\ Resolved
  /\ FrontNode(last.pos) = NoNode
  /\ emitted = <<connection_dropped(last.node, port_index_from[last.node], last.pos)>>

\* C10: a drag from port A (OUT, type T) released on port B (IN, type T) of
\* another node, after a relayed move over B, emits connection_finished(A's
\* node, A, B's node, B); and likewise from an IN port to an OUT port.
C10_CompatibleDropConnects ==
  [][ReleaseOfDrag =>
       LET o == grabber
           t == FrontNode(pointer)
       IN  \A B \in (IF t \in Nodes \ {o} THEN PortsHit(t, pointer) ELSE {}) :
             (/\ Compatible(o, port_index_from[o], t, B)
              /\ last.kind = "move"
              /\ last.pos = pointer)
             => emitted' = <<connection_finished(o, port_index_from[o], t, B)>>]_vars

\* C11: in every state between events a node is movable exactly when it is
\* not the origin of a drag in progress: the press that starts the drag
\* clears ItemIsMovable, nothing sets it during the drag, and the resolving
\* release sets it again.
C11_MovableIffNotConnecting ==
  \A n \in Nodes : is_movable[n] <=> ~has_connection_started[n]

\* C11 witness: after a mouse move of a drag the origin is still not movable.
C11_Witness ==
  /\ last.kind = "move"
  /\ last.node \in Nodes
  /\ Dragging(last.node)
  /\ ~is_movable[last.node]

\* the signals of the last event that end a drag
Outcomes(sigs) ==
  {i \in 1 .. Len(sigs) : sigs[i][1] \in {"connection_finished", "connection_dropped"}}

\* C12: the release of a drag emits exactly one of connection_finished and
\* connection_dropped, carrying the origin and the port index announced by
\* connection_started at the press, and returns the origin to idle; no other
\* step emits connection_finished or connection_dropped.
C12_DragProtocol ==
  /\ [][ReleaseOfDrag =>
          /\ Cardinality(Outcomes(emitted')) = 1
          /\ \A i \in Outcomes(emitted') :
               /\ emitted'[i][2] = grabber
               /\ emitted'[i][3] = port_index_from[grabber]
          /\ ~has_connection_started'[grabber]]_vars
  /\ [][Outcomes(emitted') # {} =>
          /\ ReleaseOfDrag
          /\ \A i \in Outcomes(emitted') : Dragging(emitted'[i][2])]_vars
  /\ [][\A n \in Nodes :
          /\ (~Dragging(n) /\ Dragging(n)') =>
               /\ mousePressEvent("Left")
               /\ connection_started(n, port_index_from'[n]) \in
                    {emitted'[i] : i \in 1 .. Len(emitted')}
          /\ (Dragging(n) /\ Dragging(n)') => port_index_from'[n] = port_index_from[n]]_vars

\* C12 witness: a drag has been resolved with a single connection_finished
\* carrying its origin and origin port.
C12_Witness ==
  /\ Resolved
  /\ Len(emitted) = 1
  /\ emitted[1][1] = "connection_finished"
  /\ emitted[1][2] = last.node
  /\ emitted[1][3] = port_index_from[last.node]
  /\ ~Dragging(last.node)

\* C13: after the nodes other than the origin have handled a relayed mouse
\* move of a drag, none of them has a hovered port that is incompatible with
\* the origin port (same direction, or another data type).
C13_RelayUnhoversIncompatible ==
  (last.kind = "move" /\ last.node \in Nodes /\ Dragging(last.node)) =>
    \A n \in Nodes \ {last.node} : \A k \in HoveredPorts(n) :
      Compatible(last.node, port_index_from[last.node], n, k)

\* C13 witness: a relayed move of a drag landed inside an incompatible port
\* of another node, which is not hovered.
C13_Witness ==
  /\ last.kind = "move"
  /\ last.node \in Nodes
  /\ Dragging(last.node)
  /\ \E n \in Nodes \ {last.node} : \E k \in PortsHit(n, last.pos) :
       /\ ~Compatible(last.node, port_index_from[last.node], n, k)
       /\ ~is_port_hovered[n][k]

\* C14: whenever connection_finished(origin, p, target, q) is emitted, the
\* release position lies inside the hit rectangle of port q of target.
C14_FinishedOnReleasedPort ==
  Resolved =>
    \A s \in EmittedOf("connection_finished") : last.pos \in PortRect(s[4], s[5])

\* C15: a relayed mouse move changes only is_port_hovered and
\* data_type_connecting of the filtering nodes: has_connection_started,
\* port_index_from and the movable flag of every node and the hover flags and
\* data type of the origin are unchanged, nothing is emitted, and with no
\* drag in progress no field of any node changes.
C15_RelayFrame ==
  [][last'.kind = "move" =>
       /\ has_connection_started' = has_connection_started
       /\ port_index_from' = port_index_from
       /\ is_movable' = is_movable
       /\ is_port_hovered'[grabber] = is_port_hovered[grabber]
       /\ data_type_connecting'[grabber] = data_type_connecting[grabber]
       /\ emitted' = <<>>
       /\ (\A n \in Nodes : ~Dragging(n)) => UNCHANGED node_vars]_vars

\* C15 witness: a relayed move of a drag hovered a port of another node while
\* the origin kept its own hovered port.
C15_Witness ==
  /\ last.kind = "move"
  /\ last.node \in Nodes
  /\ Dragging(last.node)
  /\ HoveredPorts(last.node) # {}
  /\ \E n \in Nodes \ {last.node} : \E k \in PortsHit(n, last.pos) :
       is_port_hovered[n][k]

\* C16: update_is_port_hovered returns true exactly when the point is inside
\* some port rectangle or some port of the node was hovered before the call
\* (also on a hit of the port already hovered); when it returns false the
\* flags are unchanged.  The returned value shows in the update() call of
\* the hover move, and in that of a relayed move on a node that already
\* holds the data type of the drag.
C16_UpdateHoverReturn ==
  /\ [][(last'.kind = "hover" /\ last'.node \in Nodes) =>
          LET n == last'.node
              pt == last'.pos
          IN  /\ n \in updated' <=> (PortsHit(n, pt) # {} \/ HoveredPorts(n) # {})
              /\ n \notin updated' => is_port_hovered' = is_port_hovered]_vars
  /\ [][(last'.kind = "move" /\ Dragging(last'.node)) =>
          \A n \in Nodes \ {last'.node} :
            data_type_connecting[n] = data_type_connecting[last'.node] =>
              /\ n \in updated' <=>
                   (PortsHit(n, last'.pos) # {} \/ HoveredPorts(n) # {})
              /\ n \notin updated' => is_port_hovered'[n] = is_port_hovered[n]]_vars

\* C16 witness: a hover move on a port made the node call update(), the port
\* being hovered.
C16_Witness ==
  /\ last.kind = "hover"
  /\ last.node \in Nodes
  /\ last.node \in updated
  /\ \E k \in PortsHit(last.node, last.pos) : is_port_hovered[last.node][k]

\* C17: a hover move at the point of the hover move just before it leaves the
\* hover flags as that one left them, and a hover move that hits a port
\* returns true (the node calls update()).
C17_HoverScanIdempotent ==
  [][\A pt \in Points : (hoverMoveEvent(pt) /\ FrontNode(pt) \in Nodes) =>
       /\ PortsHit(FrontNode(pt), pt) # {} => FrontNode(pt) \in updated'
       /\ (last.kind = "hover" /\ last.pos = pt) =>
            is_port_hovered' = is_port_hovered]_vars

\* C18: a secondary-button press emits right_clicked with the node and
\* nothing else, and changes no field of any node (connecting flag, origin
\* port, data type, hover flags, movable flag), hovered port or not, drag in
\* progress or not.
C18_RightPressFrame ==
  [][mousePressEvent("Right") =>
       /\ emitted' = <<right_clicked(Receiver)>>
       /\ UNCHANGED node_vars]_vars

\* C18 witness: a secondary-button press arrived at the origin of a drag in
\* progress, a port of which is hovered, and emitted right_clicked.
C18_Witness ==
  /\ last.kind = "press"
  /\ last.button = "Right"
  /\ Dragging(last.node)
  /\ HoveredPorts(last.node) # {}
  /\ emitted = <<right_clicked(last.node)>>

\* the data type of the origin port of a drag
OriginType(o) == get_data_type(o, port_index_from[o])

\* C19 as stated: during a drag every port of every node is drawn
\* not-selectable exactly when its data type differs from the origin port's;
\* with no drag in progress no port is drawn not-selectable.
C19_PresentationFollowsDrag ==
  /\ \A o \in Nodes : Dragging(o) =>
       \A n \in Nodes : \A k \in PortsOf(n) :
         PortNotSelectable(n, k) <=> get_data_type(n, k) # OriginType(o)
  /\ (\A o \in Nodes : ~Dragging(o)) =>
       \A n \in Nodes : \A k \in PortsOf(n) : ~PortNotSelectable(n, k)

\* C19 amended: during a drag the ports of the origin, and right after a
\* relayed mouse move the ports of every node, are drawn not-selectable
\* exactly when their data type differs from the origin port's, hovered or
\* not; a port of the origin port's data type is never drawn not-selectable;
\* with no drag in progress no port is drawn not-selectable.
C19_PresentationAfterRelay ==
  /\ \A o \in Nodes : Dragging(o) =>
       /\ \A k \in PortsOf(o) :
            PortNotSelectable(o, k) <=> get_data_type(o, k) # OriginType(o)
       /\ \A n \in Nodes : \A k \in PortsOf(n) :
            PortNotSelectable(n, k) => get_data_type(n, k) # OriginType(o)
       /\ last.kind = "move" =>
            \A n \in Nodes : \A k \in PortsOf(n) :
              PortNotSelectable(n, k) <=> get_data_type(n, k) # OriginType(o)
  /\ (\A o \in Nodes : ~Dragging(o)) =>
       \A n \in Nodes : \A k \in PortsOf(n) : ~PortNotSelectable(n, k)

\* C19 witness: after a relayed move of a drag a port of another node is
\* drawn not-selectable, and so is a hovered port of the origin with another
\* data type.
C19_Witness ==
  \E o \in Nodes :
    /\ Dragging(o)
    /\ last.kind = "move"
    /\ \E n \in Nodes \ {o} : \E k \in PortsOf(n) : PortNotSelectable(n, k)
    /\ \E k \in HoveredPorts(o) : PortNotSelectable(o, k)

\* C20: a node that is connecting has a port_index_from that is a valid
\* index of its own ports.
C20_OriginIndexValid ==
  \A n \in Nodes : Dragging(n) =>
    (0 <= port_index_from[n] /\ port_index_from[n] < get_nports(n))

\* C20 witness: a drag is in progress from the last port of a node.
C20_Witness ==
  \E n \in Nodes : Dragging(n) /\ port_index_from[n] = get_nports(n) - 1

====
